---- MODULE Spec2Model ----
(***************************************************************************)
(* MjapiClient (src/bot/mjapi/mjapi.py): a client that sends every HTTP    *)
(* request of its operations over one requests.Session, one at a time      *)
(* under a threading.Lock, and turns each response into a result or an     *)
(* exception.  Caller threads invoke the operations concurrently.          *)
(***************************************************************************)
EXTENDS Integers, Sequences, FiniteSets, TLC

\* ------------------------------------------------------------------ bounds
\* Number of caller threads sharing the one client.
NumThreads == 2
\* Longest list of envelopes a caller passes to batch.
MaxBatch == 2

Threads == 1 .. NumThreads

\* ------------------------------------------------------------------ values
\* Python's None, as the value of self.token and of a flag.
NoToken == "None"
\* The identifiers a server hands out and a caller installs.
Tokens == {"tok123", "tok456"}
\* Sequence numbers of action envelopes.
Seqs == {5, 6}

\* f'Bearer {token}'
Bearer(token) == <<"Bearer", token>>
\* self.headers = {}
NoHeaders == [k \in {} |-> <<>>]
\* self.headers['Authorization'] = value
WithAuthorization(h, value) ==
    [k \in (DOMAIN h) \cup {"Authorization"} |->
        IF k = "Authorization" THEN value ELSE h[k]]

\* HTTPAdapter(max_retries=0): how often the adapter sends a request again
\* after a connection failure.
max_retries == 0

\* The status code _post_act compares with.
HTTP_OK == 200
\* Status codes a server answers with: 200, another success, two failures.
Statuses == {HTTP_OK, 204, 400, 500}

\* A response body.  t is its shape: "empty" (no content), "text" (content
\* that is not JSON), "null" / "array" / "object" (the JSON value).  keys
\* are an object's keys or an array's string elements; id is the value of
\* an object's `id` field.
Keys == {"act", "error", "id", "models", "used"}
ArrayElems == {"act", "error", "id"}
MkBody(t, keys, id) == [t |-> t, keys |-> keys, id |-> id]
EmptyBody == MkBody("empty", {}, NoToken)
TextBody == MkBody("text", {}, NoToken)
NullBody == MkBody("null", {}, NoToken)
ObjectBodies ==
    {MkBody("object", ks, NoToken) : ks \in SUBSET (Keys \ {"id"})}
    \cup {MkBody("object", ks \cup {"id"}, i) :
            ks \in SUBSET (Keys \ {"id"}), i \in Tokens}
ArrayBodies == {MkBody("array", ks, NoToken) : ks \in SUBSET ArrayElems}
Bodies == {EmptyBody, TextBody, NullBody} \cup ObjectBodies \cup ArrayBodies

\* What session.post / session.get ends with: an HTTP response, or a
\* requests.RequestException (connection failure, timeout).
HttpRes(status, body) == [net |-> "http", status |-> status, body |-> body]
NetErr == [net |-> "error", status |-> 0, body |-> EmptyBody]
NoRes == [net |-> "none", status |-> 0, body |-> EmptyBody]
Responses == {HttpRes(s, b) : s \in Statuses, b \in Bodies} \cup {NetErr}

\* How an operation ends: it returns a value or raises.
\*   Return "None"          None
\*   Return "body"          the decoded body b
\*   Return k (a key)       b[k]
\*   Raise e                exception e; b is the payload it carries
Return(v, b) == [k |-> "return", v |-> v, b |-> b]
Raise(e, b) == [k |-> "raise", v |-> e, b |-> b]
RetNone == Return("None", EmptyBody)
NoRet == [k |-> "none", v |-> "None", b |-> EmptyBody]

\* ------------------------------------------------- Python and requests
\* res.ok: raise_for_status raises for 400 <= status < 600.
ok(res) == ~(res.status >= 400 /\ res.status < 600)
\* A check of the content that is always taken as passed.
HasContent_always(res) == TRUE

\* res.content is truthy.
HasContent(res) == res.body.t # "empty"
\* res.json() fails to decode.
JsonFails(res) == res.body.t \in {"empty", "text"}
\* A test of the flag that takes everything but None as set.
Truthy_is_not_none(flag) == flag # "None"

\* bool(raise_error)
Truthy(flag) == flag = "True"

\* A membership test that never finds the key.
Contains_never(key, b) == "False"

\* A membership test that always finds the key.
Contains_always(key, b) == "True"

\* `key in value` for the decoded JSON value of body b: "TypeError" when the
\* value is None, else whether an object has the key / an array the element.
Contains(key, b) ==
    IF b.t = "null" THEN "TypeError"
    ELSE IF key \in b.keys THEN "True" ELSE "False"

\* value[key] for what a request helper returned.
Subscript(out, key) ==
    IF out.v = "None" THEN Raise("TypeError", EmptyBody)
    ELSE IF out.b.t # "object" THEN Raise("TypeError", out.b)
    ELSE IF key \in out.b.keys THEN Return(key, out.b)
    ELSE Raise("KeyError", out.b)

\* --------------------------------------------------- response handling
\* _process_res.  ApiError is the RuntimeError "Error in response",
\* UnexpectedResponse the RuntimeError "Unexpected API response".
_process_res(res, raise_error) ==
    IF ok(res)
    THEN IF ~HasContent(res) THEN RetNone
         ELSE IF JsonFails(res) THEN Raise("JSONDecodeError", res.body)
         ELSE IF res.body.t = "null" THEN RetNone
         ELSE Return("body", res.body)
    ELSE IF JsonFails(res) THEN Raise("JSONDecodeError", res.body)
    ELSE IF Contains("error", res.body) = "TypeError"
         THEN Raise("TypeError", res.body)
    ELSE IF Contains("error", res.body) = "True"
         THEN IF res.body.t = "array" THEN Raise("TypeError", res.body)
              ELSE IF Truthy(raise_error) THEN Raise("ApiError", res.body)
              ELSE Return("body", res.body)
    ELSE Raise("UnexpectedResponse", res.body)

\* The request and _process_res without the except clause: whatever is
\* raised goes to the caller.
try_except_absent(res, raise_error, decodeCaught) ==
    IF res.net = "error" THEN Raise("TransportError", EmptyBody)
    ELSE _process_res(res, raise_error)

\* The try / except requests.RequestException around the request and
\* _process_res in post_req and get_req.  decodeCaught: whether the
\* installed requests raises, for a body that is not JSON, a subclass of
\* RequestException (requests >= 2.27) or a plain ValueError (older).
try_except(res, raise_error, decodeCaught) ==
    LET out == IF res.net = "error"
               THEN Raise("TransportError", EmptyBody)
               ELSE _process_res(res, raise_error)
        isRequestException ==
            /\ out.k = "raise"
            /\ \/ out.v = "TransportError"
               \/ out.v = "JSONDecodeError" /\ decodeCaught
    IN  IF isRequestException /\ ~Truthy(raise_error) THEN RetNone ELSE out

\* An empty body taken as "no reaction" whatever the status.
post_act_empty_none(res) == RetNone

\* _post_act, no content in the response: elif response.status_code != 200.
post_act_empty(res) ==
    IF res.status # HTTP_OK THEN Raise("ProtocolError", EmptyBody)
    ELSE RetNone

\* The part of _post_act after the request.  ProtocolError is the
\* ValueError "status code ...".
post_act_response(res) ==
    IF res.net = "error" THEN Raise("TransportError", EmptyBody)
    ELSE IF HasContent(res)
    THEN IF JsonFails(res) THEN Raise("JSONDecodeError", res.body)
         ELSE IF res.status = HTTP_OK
         THEN IF Contains("act", res.body) = "TypeError"
                   THEN Raise("TypeError", res.body)
              ELSE IF Contains("act", res.body) = "True"
                   THEN IF res.body.t = "array"
                        THEN Raise("TypeError", res.body)
                        ELSE Return("act", res.body)
              ELSE RetNone
         ELSE IF Contains("error", res.body) = "TypeError"
                   THEN Raise("TypeError", res.body)
              ELSE IF Contains("error", res.body) = "True"
                   THEN Return("body", res.body)
              ELSE Raise("ProtocolError", res.body)
    ELSE post_act_empty(res)

\* ------------------------------------------------------ the operations
PostOps == {"register", "login", "trial", "logout", "start_bot", "stop_bot"}
GetOps == {"get_user_info", "list_models", "get_usage", "get_limit"}
ActOps == {"act", "batch"}
LoginOps == {"login", "trial"}
CredentialOps == {"login", "trial", "set_temp_user"}

\* Every call left at the default raise_error.
raise_error_default(name) == "True"

\* The raise_error an operation's call of post_req / get_req binds:
\* get_usage and get_limit pass None as get_req's second parameter;
\* stop_bot passes None as post_req's second parameter, which is json, so
\* raise_error keeps its default like in the calls that pass nothing.
raise_error_of(name) ==
    IF name \in {"get_usage", "get_limit"} THEN "None" ELSE "True"

\* The values a caller passes as raise_error.
Flags == {"True", "False", "None"}

\* What an operation makes of the value its request helper returned.
finish(name, out) ==
    IF out.k = "raise" THEN out
    ELSE IF name = "list_models" THEN Subscript(out, "models")
    ELSE IF name = "get_usage" THEN Subscript(out, "used")
    ELSE IF name \in LoginOps
    THEN \* if 'id' in res_json ... else raise RuntimeError("Error login")
         IF out.v = "None" THEN Raise("TypeError", EmptyBody)
         ELSE IF Contains("id", out.b) = "True"
              THEN Subscript(out, "id")
              ELSE Raise("AuthenticationError", out.b)
    ELSE out

\* ---------------------------------------------------------------- state
VARIABLES
    token,      \* self.token
    headers,    \* self.headers
    lock,       \* self._lock: the thread holding it, 0 when free
    pc,         \* where each thread is in its call
    op,         \* the operation each thread is in
    arg,        \* its arguments
    carried,    \* the headers its request was sent with
    nreq,       \* how many HTTP requests its call has issued
    res,        \* the response its request ended with
    local,      \* the argument `token` of its set_bearer_token call
    ret,        \* how its call ended
    credOwner,  \* history: the thread whose credential-setting operation
                \* has run, so far, without another one overlapping it
    installed   \* history: the id a login or trial that ran that way has
                \* installed, until the next credential-setting operation
                \* begins to write

shared == <<token, headers, lock>>
perThread == <<pc, op, arg, carried, nreq, res, local, ret>>
history == <<credOwner, installed>>
vars == <<token, headers, lock, pc, op, arg, carried, nreq, res, local, ret,
          credOwner, installed>>

NoArg == [token |-> NoToken, seqs |-> <<>>, raise_error |-> "True"]
Batches == UNION {[1 .. n -> Seqs] : n \in 0 .. MaxBatch}

\* __init__
Init ==
    /\ token = NoToken
    /\ headers = NoHeaders
    /\ lock = 0
    /\ pc = [t \in Threads |-> "idle"]
    /\ op = [t \in Threads |-> "none"]
    /\ arg = [t \in Threads |-> NoArg]
    /\ carried = [t \in Threads |-> NoHeaders]
    /\ nreq = [t \in Threads |-> 0]
    /\ res = [t \in Threads |-> NoRes]
    /\ local = [t \in Threads |-> NoToken]
    /\ ret = [t \in Threads |-> NoRet]
    /\ credOwner = 0
    /\ installed = NoToken

\* A thread is between the first and the last write of a credential-setting
\* operation.
InCredential(t) == pc[t] \in {"L104", "L45", "L46"}

\* History: a credential-setting operation of t begins to write.
BeginCredential(t) ==
    /\ installed' = NoToken
    /\ credOwner' = IF \E u \in Threads \ {t} : InCredential(u) THEN 0 ELSE t

\* A caller thread invokes an operation that goes to the network.
Invoke(t, name, a) ==
    /\ pc[t] = "idle"
    /\ pc' = [pc EXCEPT ![t] = "wait"]
    /\ op' = [op EXCEPT ![t] = name]
    /\ arg' = [arg EXCEPT ![t] = a]
    /\ UNCHANGED <<shared, carried, nreq, res, local, ret, history>>

register(t) == Invoke(t, "register", NoArg)
login(t) == Invoke(t, "login", NoArg)
trial(t) == Invoke(t, "trial", NoArg)
get_user_info(t) == Invoke(t, "get_user_info", NoArg)
logout(t) == Invoke(t, "logout", NoArg)
list_models(t) == Invoke(t, "list_models", NoArg)
get_usage(t) == Invoke(t, "get_usage", NoArg)
get_limit(t) == Invoke(t, "get_limit", NoArg)
start_bot(t) == Invoke(t, "start_bot", NoArg)
stop_bot(t) == Invoke(t, "stop_bot", NoArg)

\* A caller calls post_req / get_req itself, with the raise_error it chooses.
call_post_req(t, flag) ==
    Invoke(t, "post_req", [NoArg EXCEPT !.raise_error = flag])
call_get_req(t, flag) ==
    Invoke(t, "get_req", [NoArg EXCEPT !.raise_error = flag])

\* close: self.session.close(); no request, nothing of the client changes.
close(t) ==
    /\ pc[t] = "idle"
    /\ pc' = [pc EXCEPT ![t] = "done"]
    /\ op' = [op EXCEPT ![t] = "close"]
    /\ ret' = [ret EXCEPT ![t] = RetNone]
    /\ UNCHANGED <<shared, arg, carried, nreq, res, local, history>>

act(t, seq) == Invoke(t, "act", [NoArg EXCEPT !.seqs = <<seq>>])

\* batch without its test for the empty list.
batch_always_posts(t, actions) ==
    Invoke(t, "batch", [NoArg EXCEPT !.seqs = actions])

\* batch: None at once for an empty list, else on to _post_act.
batch(t, actions) ==
    /\ pc[t] = "idle"
    /\ op' = [op EXCEPT ![t] = "batch"]
    /\ arg' = [arg EXCEPT ![t] = [NoArg EXCEPT !.seqs = actions]]
    /\ IF Len(actions) = 0
       THEN /\ pc' = [pc EXCEPT ![t] = "done"]
            /\ ret' = [ret EXCEPT ![t] = RetNone]
       ELSE /\ pc' = [pc EXCEPT ![t] = "wait"]
            /\ UNCHANGED ret
    /\ UNCHANGED <<shared, carried, nreq, res, local, history>>

\* set_temp_user up to its call of set_bearer_token: self.token = token.
set_temp_user(t, tok) ==
    /\ pc[t] = "idle"
    /\ op' = [op EXCEPT ![t] = "set_temp_user"]
    /\ arg' = [arg EXCEPT ![t] = [NoArg EXCEPT !.token = tok]]
    /\ token' = tok
    /\ pc' = [pc EXCEPT ![t] = "L104"]
    /\ BeginCredential(t)
    /\ UNCHANGED <<headers, lock, carried, nreq, res, local, ret>>

\* The request sent without taking the lock.
session_request_unlocked(t) ==
    /\ pc[t] = "wait"
    /\ pc' = [pc EXCEPT ![t] = "inflight"]
    /\ carried' = [carried EXCEPT ![t] = headers]
    /\ nreq' = [nreq EXCEPT ![t] = nreq[t] + 1]
    /\ UNCHANGED <<token, headers, lock, op, arg, res, local, ret, history>>

\* with self._lock: self.session.post / get (..., headers=self.headers, ...):
\* the thread takes the lock and its request goes out.
session_request(t) ==
    /\ pc[t] = "wait"
    /\ lock = 0
    /\ lock' = t
    /\ pc' = [pc EXCEPT ![t] = "inflight"]
    /\ carried' = [carried EXCEPT ![t] = headers]
    /\ nreq' = [nreq EXCEPT ![t] = nreq[t] + 1]
    /\ UNCHANGED <<token, headers, op, arg, res, local, ret, history>>

\* The lock given back only when the request ended with a response.
Complete_keeps_lock_on_error(t, r, out) ==
    /\ pc[t] = "inflight"
    /\ IF r = NetErr /\ nreq[t] <= max_retries
       THEN /\ nreq' = [nreq EXCEPT ![t] = nreq[t] + 1]
            /\ UNCHANGED <<lock, res, carried, pc, ret>>
       ELSE /\ lock' = IF lock = t /\ r # NetErr THEN 0 ELSE lock
            /\ res' = [res EXCEPT ![t] = r]
            /\ carried' = [carried EXCEPT ![t] = NoHeaders]
            /\ IF op[t] \in LoginOps /\ out.k = "return"
               THEN /\ pc' = [pc EXCEPT ![t] = "L103"]
                    /\ UNCHANGED ret
               ELSE /\ pc' = [pc EXCEPT ![t] = "done"]
                    /\ ret' = [ret EXCEPT ![t] = out]
            /\ UNCHANGED nreq
    /\ UNCHANGED <<token, headers, op, arg, local, history>>

\* A connection failure answered by sending the request once more.
Complete_retry_once(t, r, out) ==
    /\ pc[t] = "inflight"
    /\ IF r = NetErr /\ nreq[t] < 2
       THEN /\ nreq' = [nreq EXCEPT ![t] = nreq[t] + 1]
            /\ UNCHANGED <<lock, res, carried, pc, ret>>
       ELSE /\ lock' = IF lock = t THEN 0 ELSE lock
            /\ res' = [res EXCEPT ![t] = r]
            /\ carried' = [carried EXCEPT ![t] = NoHeaders]
            /\ IF op[t] \in LoginOps /\ out.k = "return"
               THEN /\ pc' = [pc EXCEPT ![t] = "L103"]
                    /\ UNCHANGED ret
               ELSE /\ pc' = [pc EXCEPT ![t] = "done"]
                    /\ ret' = [ret EXCEPT ![t] = out]
            /\ UNCHANGED nreq
    /\ UNCHANGED <<token, headers, op, arg, local, history>>

\* The request of t ends with r.  After a connection failure the adapter
\* sends it again while it has retries left; else the with block is left,
\* the lock given back, and the call goes on with what its handler made
\* of r.
Complete(t, r, out) ==
    /\ pc[t] = "inflight"
    /\ IF r = NetErr /\ nreq[t] <= max_retries
       THEN /\ nreq' = [nreq EXCEPT ![t] = nreq[t] + 1]
            /\ UNCHANGED <<lock, res, carried, pc, ret>>
       ELSE /\ lock' = IF lock = t THEN 0 ELSE lock
            /\ res' = [res EXCEPT ![t] = r]
            /\ carried' = [carried EXCEPT ![t] = NoHeaders]
            /\ IF op[t] \in LoginOps /\ out.k = "return"
               THEN /\ pc' = [pc EXCEPT ![t] = "L103"]
                    /\ UNCHANGED ret
               ELSE /\ pc' = [pc EXCEPT ![t] = "done"]
                    /\ ret' = [ret EXCEPT ![t] = out]
            /\ UNCHANGED nreq
    /\ UNCHANGED <<token, headers, op, arg, local, history>>

\* The raise_error of the call of post_req / get_req that t is in.
raise_error(t) ==
    IF op[t] \in {"post_req", "get_req"} THEN arg[t].raise_error
    ELSE raise_error_of(op[t])

post_req(t, r, decodeCaught) ==
    /\ op[t] \in PostOps \cup {"post_req"}
    /\ Complete(t, r, finish(op[t],
                             try_except(r, raise_error(t), decodeCaught)))

get_req(t, r, decodeCaught) ==
    /\ op[t] \in GetOps \cup {"get_req"}
    /\ Complete(t, r, finish(op[t],
                             try_except(r, raise_error(t), decodeCaught)))

\* _post_act taking a reaction only as the answer to sequence number 5.
_post_act_checks_seq(t, r) ==
    /\ op[t] \in ActOps
    /\ Complete(t, r,
                IF /\ post_act_response(r).v = "act"
                   /\ arg[t].seqs[Len(arg[t].seqs)] # 5
                THEN Raise("ProtocolError", r.body)
                ELSE post_act_response(r))

_post_act(t, r) ==
    /\ op[t] \in ActOps
    /\ Complete(t, r, post_act_response(r))

\* login / trial: self.token = res_json['id']
login_set_token(t) ==
    /\ pc[t] = "L103"
    /\ token' = res[t].body.id
    /\ pc' = [pc EXCEPT ![t] = "L104"]
    /\ BeginCredential(t)
    /\ UNCHANGED <<headers, lock, op, arg, carried, nreq, res, local, ret>>

\* self.set_bearer_token(self.token): the argument is read from the field.
read_token(t) ==
    /\ pc[t] = "L104"
    /\ local' = [local EXCEPT ![t] = token]
    /\ pc' = [pc EXCEPT ![t] = "L45"]
    /\ UNCHANGED <<shared, op, arg, carried, nreq, res, ret, history>>

\* set_bearer_token: self.token = token
set_bearer_token_token(t) ==
    /\ pc[t] = "L45"
    /\ token' = local[t]
    /\ pc' = [pc EXCEPT ![t] = "L46"]
    /\ UNCHANGED <<headers, lock, op, arg, carried, nreq, res, local, ret,
                   history>>

\* set_bearer_token without the write of the header.
set_bearer_token_header_skipped(t) ==
    /\ pc[t] = "L46"
    /\ pc' = [pc EXCEPT ![t] = "done"]
    /\ ret' = [ret EXCEPT ![t] = RetNone]
    /\ installed' = IF credOwner = t /\ op[t] \in LoginOps
                  THEN local[t] ELSE NoToken
    /\ credOwner' = IF credOwner = t THEN 0 ELSE credOwner
    /\ UNCHANGED <<token, headers, lock, op, arg, carried, nreq, res, local>>

\* set_bearer_token: self.headers['Authorization'] = f'Bearer {token}',
\* after which the credential-setting operation returns None.
set_bearer_token_header(t) ==
    /\ pc[t] = "L46"
    /\ headers' = WithAuthorization(headers, Bearer(local[t]))
    /\ pc' = [pc EXCEPT ![t] = "done"]
    /\ ret' = [ret EXCEPT ![t] = RetNone]
    /\ installed' = IF credOwner = t /\ op[t] \in LoginOps
                  THEN local[t] ELSE NoToken
    /\ credOwner' = IF credOwner = t THEN 0 ELSE credOwner
    /\ UNCHANGED <<token, lock, op, arg, carried, nreq, res, local>>

\* A return that forgets the credential when the call was logout.
returned_logout_clears(t) ==
    /\ pc[t] = "done"
    /\ pc' = [pc EXCEPT ![t] = "idle"]
    /\ op' = [op EXCEPT ![t] = "none"]
    /\ arg' = [arg EXCEPT ![t] = NoArg]
    /\ carried' = [carried EXCEPT ![t] = NoHeaders]
    /\ nreq' = [nreq EXCEPT ![t] = 0]
    /\ res' = [res EXCEPT ![t] = NoRes]
    /\ local' = [local EXCEPT ![t] = NoToken]
    /\ ret' = [ret EXCEPT ![t] = NoRet]
    /\ token' = IF op[t] = "logout" THEN NoToken ELSE token
    /\ headers' = IF op[t] = "logout" THEN NoHeaders ELSE headers
    /\ UNCHANGED <<lock, history>>

\* The caller has its result (or exception) and is free to call again.
returned(t) ==
    /\ pc[t] = "done"
    /\ pc' = [pc EXCEPT ![t] = "idle"]
    /\ op' = [op EXCEPT ![t] = "none"]
    /\ arg' = [arg EXCEPT ![t] = NoArg]
    /\ carried' = [carried EXCEPT ![t] = NoHeaders]
    /\ nreq' = [nreq EXCEPT ![t] = 0]
    /\ res' = [res EXCEPT ![t] = NoRes]
    /\ local' = [local EXCEPT ![t] = NoToken]
    /\ ret' = [ret EXCEPT ![t] = NoRet]
    /\ UNCHANGED <<shared, history>>

\* ------------------------------------------------------ specifications
\* Inputs of the concurrent specification: one response for each way a
\* request can end (an id is issued, nothing to say, a structured error,
\* the transport fails) and one argument for each way a call can start.
CoreResponses ==
    {HttpRes(HTTP_OK, MkBody("object", {"id"}, i)) : i \in Tokens}
    \cup {HttpRes(HTTP_OK, EmptyBody),
          HttpRes(500, MkBody("object", {"error"}, NoToken)),
          NetErr}
CoreBatches == {<<>>, <<5>>}

\* A call that has ended is handed to its caller before another thread
\* moves: returned(t) reads and writes only what is local to t, so every
\* interleaving has an equivalent one in which it comes first.
HandedOver == \A u \in Threads : pc[u] # "done"

\* Any number of threads call the client concurrently.
Next ==
    \E t \in Threads :
        \/ returned(t)
        \/ /\ HandedOver
           /\ \/ register(t) \/ login(t) \/ trial(t) \/ get_user_info(t)
              \/ logout(t) \/ list_models(t) \/ get_usage(t) \/ get_limit(t)
              \/ start_bot(t) \/ stop_bot(t) \/ close(t)
              \/ act(t, 5)
              \/ \E actions \in CoreBatches : batch(t, actions)
              \/ \E tok \in Tokens : set_temp_user(t, tok)
              \/ session_request(t)
              \/ \E r \in CoreResponses, c \in BOOLEAN : post_req(t, r, c)
              \/ \E r \in CoreResponses, c \in BOOLEAN : get_req(t, r, c)
              \/ \E r \in CoreResponses : _post_act(t, r)
              \/ login_set_token(t) \/ read_token(t)
              \/ set_bearer_token_token(t) \/ set_bearer_token_header(t)

Spec == Init /\ [][Next]_vars

\* One caller thread, every response and every argument, and the helpers
\* post_req / get_req called directly as well.
SeqNext ==
    \E t \in {1} :
        \/ register(t) \/ login(t) \/ trial(t) \/ get_user_info(t)
        \/ logout(t) \/ list_models(t) \/ get_usage(t) \/ get_limit(t)
        \/ start_bot(t) \/ stop_bot(t) \/ close(t)
        \/ \E flag \in Flags : call_post_req(t, flag)
        \/ \E flag \in Flags : call_get_req(t, flag)
        \/ \E seq \in Seqs : act(t, seq)
        \/ \E actions \in Batches : batch(t, actions)
        \/ \E tok \in Tokens : set_temp_user(t, tok)
        \/ session_request(t)
        \/ \E r \in Responses, c \in BOOLEAN : post_req(t, r, c)
        \/ \E r \in Responses, c \in BOOLEAN : get_req(t, r, c)
        \/ \E r \in Responses : _post_act(t, r)
        \/ login_set_token(t) \/ read_token(t)
        \/ set_bearer_token_token(t) \/ set_bearer_token_header(t)
        \/ returned(t)

SeqSpec == Init /\ [][SeqNext]_vars

\* Callers that keep calling, with fairness.  Inputs: one response for each
\* way a request can end (success with an id, a structured error, a timeout
\* or connection failure).
FairResponses ==
    {HttpRes(HTTP_OK, MkBody("object", {"id"}, "tok123")),
     HttpRes(500, MkBody("object", {"error"}, NoToken)),
     NetErr}

FairNext ==
    \E t \in Threads :
        \/ login(t) \/ get_limit(t) \/ act(t, 5)
        \/ set_temp_user(t, "tok123")
        \/ session_request(t)
        \/ \E r \in FairResponses, c \in BOOLEAN : post_req(t, r, c)
        \/ \E r \in FairResponses, c \in BOOLEAN : get_req(t, r, c)
        \/ \E r \in FairResponses : _post_act(t, r)
        \/ login_set_token(t) \/ read_token(t)
        \/ set_bearer_token_token(t) \/ set_bearer_token_header(t)
        \/ returned(t)

\* The transport call of t terminates: session.post / get has a timeout.
Transport(t) ==
    \/ \E r \in FairResponses, c \in BOOLEAN : post_req(t, r, c)
    \/ \E r \in FairResponses, c \in BOOLEAN : get_req(t, r, c)
    \/ \E r \in FairResponses : _post_act(t, r)

\* The steps of t that wait for nothing but the scheduler.
Local(t) ==
    \/ login_set_token(t) \/ read_token(t)
    \/ set_bearer_token_token(t) \/ set_bearer_token_header(t)
    \/ returned(t)

\* Threads are scheduled fairly: a running thread is not halted for ever, a
\* transport call ends, and a thread blocked in `with self._lock` gets the
\* lock if it is free again and again (strong fairness: other threads may
\* take it in between).  Nothing obliges a caller to call.
FairSpec ==
    /\ Init /\ [][FairNext]_vars
    /\ \A t \in Threads :
           /\ WF_vars(Local(t))
           /\ WF_vars(Transport(t))
           /\ SF_vars(session_request(t))

\* Calls of act and batch side by side, to compare what calls that sent
\* different sequence numbers make of one response.  Inputs: a reaction, no
\* reaction, nothing, an error, an unstructured failure, a transport
\* failure; batches that end on different sequence numbers.
PairResponses ==
    {HttpRes(HTTP_OK, MkBody("object", {"act"}, NoToken)),
     HttpRes(HTTP_OK, MkBody("object", {}, NoToken)),
     HttpRes(HTTP_OK, EmptyBody),
     HttpRes(204, EmptyBody),
     HttpRes(400, MkBody("object", {"error"}, NoToken)),
     HttpRes(400, MkBody("object", {"act"}, NoToken)),
     HttpRes(500, TextBody),
     NetErr}
PairBatches == {<<5, 6>>, <<6, 5>>}

PairNext ==
    \E t \in Threads :
        \/ \E seq \in Seqs : act(t, seq)
        \/ \E actions \in PairBatches : batch(t, actions)
        \/ session_request(t)
        \/ \E r \in PairResponses : _post_act(t, r)
        \/ returned(t)

PairSpec == Init /\ [][PairNext]_vars

\* -------------------------------------------------------------- claims
\* The headers hold Authorization: Bearer <tok>.
HasBearer(h, tok) ==
    "Authorization" \in DOMAIN h /\ h["Authorization"] = Bearer(tok)

\* The requests in flight on the session: sent, not yet answered.
InFlight == {t \in Threads : pc[t] = "inflight"}

\* C1: whatever operations the threads invoke, at most one HTTP request is
\* in flight on the shared session in every reachable state.
C1_OneRequestInFlight == Cardinality(InFlight) <= 1

\* C1 witness: a GET is in flight while an action query of another thread
\* waits for the lock.
C1_Witness ==
    \E t, u \in Threads :
        /\ pc[t] = "inflight" /\ op[t] \in GetOps /\ lock = t
        /\ pc[u] = "wait" /\ op[u] \in ActOps

\* t takes the step that invokes batch with an empty list.
BatchEmptyStep(t) ==
    /\ pc[t] = "idle" /\ pc'[t] # "idle"
    /\ op'[t] = "batch" /\ Len(arg'[t].seqs) = 0

\* C9: batch with an empty list can be taken by an idle thread in every
\* state, also while the lock is held, and in that one step it returns None
\* having sent no request and having left the token, the headers, the lock
\* and every other thread as they were.
C9_BatchEmpty ==
    /\ [](\A t \in Threads : pc[t] = "idle" => ENABLED batch(t, <<>>))
    /\ [][\A t \in Threads :
            BatchEmptyStep(t) =>
                /\ pc'[t] = "done" /\ ret'[t] = RetNone /\ nreq'[t] = 0
                /\ UNCHANGED <<token, headers, lock, credOwner, installed>>
                /\ \A u \in Threads \ {t} :
                       pc'[u] = pc[u] /\ carried'[u] = carried[u]]_vars

\* C9 witness: batch([]) has returned None while the request of another
\* thread is in flight and holds the lock.
C9_Witness ==
    \E t, u \in Threads :
        /\ pc[t] = "done" /\ op[t] = "batch" /\ arg[t].seqs = <<>>
        /\ ret[t] = RetNone /\ nreq[t] = 0
        /\ pc[u] = "inflight" /\ lock = u

\* t takes the last step of a login or trial that no other
\* credential-setting operation has overlapped.
LoginReturns(t) ==
    /\ pc[t] = "L46" /\ pc'[t] = "done"
    /\ op[t] \in LoginOps /\ credOwner = t

ActDone(t) == pc[t] = "done" /\ op[t] \in ActOps /\ res[t].net = "http"

\* The response has a failure status.
Failure(r) == r.status >= 400 /\ r.status < 600

\* The body is a JSON object with the key.
HasField(r, key) == r.body.t = "object" /\ key \in r.body.keys

\* What the response table gives for a success: None for an empty body,
\* the act field if there is one, else None.
SuccessRow(r) ==
    IF r.body.t = "empty" THEN RetNone
    ELSE IF HasField(r, "act") THEN Return("act", r.body)
    ELSE RetNone

\* C2, as claimed: for every success status (and a body that is empty or
\* a JSON object), act and non-empty batch do not raise and return None for
\* an empty body, the act field of a body that has one, None for a body
\* without act.
C2_EverySuccessStatus ==
    \A t \in Threads :
        (/\ ActDone(t)
         /\ ~Failure(res[t])
         /\ res[t].body.t \in {"empty", "object"})
            => ret[t] = SuccessRow(res[t])

\* C2, amended: for status 200 and a body that is empty or a JSON object,
\* act and non-empty batch do not raise and return None for an empty body,
\* the act field of a body that has one, None for a body without act (also
\* when it has error).
C2_Status200 ==
    \A t \in Threads :
        (/\ ActDone(t)
         /\ res[t].status = HTTP_OK
         /\ res[t].body.t \in {"empty", "object"})
            => ret[t] = SuccessRow(res[t])

\* C2 witness: a batch of two envelopes answered 200 with act and error in
\* the body has returned the act field.
C2_Witness ==
    \E t \in Threads :
        /\ ActDone(t) /\ op[t] = "batch" /\ Len(arg[t].seqs) = 2
        /\ res[t].status = HTTP_OK
        /\ HasField(res[t], "act") /\ HasField(res[t], "error")
        /\ ret[t] = Return("act", res[t].body)

\* C3: for every failure status and a body that is a JSON object with an
\* error field, act and non-empty batch return the whole body and do not
\* raise.
C3_ErrorBodyReturned ==
    \A t \in Threads :
        (ActDone(t) /\ Failure(res[t]) /\ HasField(res[t], "error"))
            => ret[t] = Return("body", res[t].body)

\* C3 witness: act answered 400 with an error body has returned that body.
C3_Witness ==
    \E t \in Threads :
        /\ ActDone(t) /\ op[t] = "act"
        /\ res[t].status = 400 /\ HasField(res[t], "error")
        /\ ret[t] = Return("body", res[t].body)

\* The call of t has failed with a ProtocolError.
ProtocolErrorRaised(t) == ret[t].k = "raise" /\ ret[t].v = "ProtocolError"

\* C4, as claimed: act and non-empty batch fail with ProtocolError exactly
\* when the status is a failure and the body is empty or has no error
\* field.
C4_ProtocolErrorOnFailure ==
    \A t \in Threads :
        ActDone(t) =>
            (ProtocolErrorRaised(t) <=>
                (Failure(res[t]) /\ ~HasField(res[t], "error")))

\* C4, amended: act and non-empty batch fail with ProtocolError exactly
\* when the status is not 200 and the body is empty or is a JSON object or
\* array without error; the error carries the body.
C4_ProtocolErrorNot200 ==
    \A t \in Threads :
        ActDone(t) =>
            /\ ProtocolErrorRaised(t) <=>
                 /\ res[t].status # HTTP_OK
                 /\ res[t].body.t \in {"empty", "object", "array"}
                 /\ "error" \notin res[t].body.keys
            /\ ProtocolErrorRaised(t) => ret[t].b = res[t].body

\* C4 witness: act answered 500 with an empty body has failed with a
\* ProtocolError.
C4_Witness ==
    \E t \in Threads :
        /\ ActDone(t) /\ op[t] = "act"
        /\ res[t].status = 500 /\ res[t].body = EmptyBody
        /\ ProtocolErrorRaised(t)

\* C5, as claimed: stop_bot never raises; answered a failure status with
\* a structured error body, it returns None or the error body.
C5_StopBotNeverRaises ==
    \A t \in Threads :
        (/\ pc[t] = "done" /\ op[t] = "stop_bot"
         /\ res[t].net = "http" /\ Failure(res[t]) /\ HasField(res[t], "error"))
            => ret[t] \in {RetNone, Return("body", res[t].body)}

\* The login / trial of t has got a response without an id field.
LoginNoId(t) ==
    /\ op[t] \in LoginOps /\ res[t].net = "http"
    /\ ~HasField(res[t], "id")

\* t takes a step of a login / trial that does not end in the id's
\* installation: it invokes it, sends its request, or ends it on a failure.
LoginFailingStep(t) ==
    /\ op'[t] \in LoginOps
    /\ \/ pc'[t] \in {"wait", "inflight"}
       \/ pc[t] = "inflight" /\ pc'[t] = "done"

\* C7, as claimed: for any response whose body is a JSON object without
\* an id field, whatever its status, login and trial fail with an
\* AuthenticationError carrying the response payload, and the token and
\* the headers are what they were.
C7_AlwaysAuthenticationError ==
    [][\A t \in Threads :
          /\ (pc'[t] = "done" /\ LoginNoId(t)' /\ res'[t].body.t = "object")
                => ret'[t] = Raise("AuthenticationError", res'[t].body)
          /\ LoginFailingStep(t) => UNCHANGED <<token, headers>>]_vars

\* C7, amended: for any response without an id field login and trial
\* raise and leave the token and the headers as they were; the error is
\* an AuthenticationError carrying the payload when the status is a success
\* and the body a JSON object; on a failure status a JSON object with an
\* error field gives an ApiError and one without it the error of an
\* unstructured failure.
C7_LoginFailsTokenKept ==
    [][\A t \in Threads :
          /\ (pc'[t] = "done" /\ LoginNoId(t)') =>
                /\ ret'[t].k = "raise"
                /\ (~Failure(res'[t]) /\ res'[t].body.t = "object")
                      => ret'[t] = Raise("AuthenticationError", res'[t].body)
                /\ (Failure(res'[t]) /\ HasField(res'[t], "error"))
                      => ret'[t] = Raise("ApiError", res'[t].body)
                /\ (/\ Failure(res'[t]) /\ res'[t].body.t = "object"
                    /\ ~HasField(res'[t], "error"))
                      => ret'[t] = Raise("UnexpectedResponse", res'[t].body)
          /\ LoginFailingStep(t) => UNCHANGED <<token, headers>>]_vars

\* C7 witness: with tok123 installed, a login answered 200 with an error
\* body has failed with an AuthenticationError, tok123 still in place.
C7_Witness ==
    \E t \in Threads :
        /\ pc[t] = "done" /\ op[t] = "login"
        /\ res[t].status = HTTP_OK /\ HasField(res[t], "error")
        /\ ret[t] = Raise("AuthenticationError", res[t].body)
        /\ token = "tok123" /\ HasBearer(headers, "tok123")

\* The informational query of t was answered with a failure status and a
\* structured error payload.
QueryError(t) ==
    /\ pc[t] = "done" /\ op[t] \in GetOps
    /\ res[t].net = "http" /\ Failure(res[t]) /\ HasField(res[t], "error")

\* C8, as claimed: get_user_info, list_models, get_usage and get_limit
\* all fail with an ApiError on a failure status with an error payload.
C8_AllQueriesRaise ==
    \A t \in Threads :
        QueryError(t) => ret[t] = Raise("ApiError", res[t].body)

\* C8, amended: on a failure status with an error payload get_user_info
\* and list_models fail with an ApiError; get_limit returns the error
\* body; get_usage returns the body's used field if it has one and else
\* fails with a KeyError.
C8_QueriesByMode ==
    \A t \in Threads :
        QueryError(t) =>
            /\ op[t] \in {"get_user_info", "list_models"}
                  => ret[t] = Raise("ApiError", res[t].body)
            /\ op[t] = "get_limit" => ret[t] = Return("body", res[t].body)
            /\ op[t] = "get_usage" =>
                  ret[t] = IF HasField(res[t], "used")
                           THEN Return("used", res[t].body)
                           ELSE Raise("KeyError", res[t].body)

\* C8 witness: list_models answered 500 with an error body has failed with
\* an ApiError.
C8_Witness ==
    \E t \in Threads :
        /\ QueryError(t) /\ op[t] = "list_models" /\ res[t].status = 500
        /\ ret[t] = Raise("ApiError", res[t].body)

\* The operations that hand on what post_req / get_req gave them.
RawOps == {"register", "logout", "start_bot", "stop_bot",
           "get_user_info", "get_limit"}

\* C10, as claimed: a failure status with a body that is not JSON, or is
\* JSON without an error key, makes post_req and get_req raise, whatever
\* raise_error is; they return neither None nor a payload.
C10_UnstructuredAlwaysFatal ==
    \A t \in Threads :
        (/\ pc[t] = "done" /\ op[t] \in RawOps
         /\ res[t].net = "http" /\ Failure(res[t])
         /\ HasContent(res[t]) /\ ~HasField(res[t], "error"))
            => ret[t].k = "raise"

\* A direct call of post_req / get_req by t has ended on a failure status
\* whose body is a JSON object with an error key.
HelperError(t) ==
    /\ pc[t] = "done" /\ op[t] \in {"post_req", "get_req"}
    /\ res[t].net = "http" /\ Failure(res[t]) /\ HasField(res[t], "error")

\* C11, as claimed: on a failure status with a structured error payload
\* post_req and get_req return None when raise_error is not set, and raise
\* the ApiError when it is.
C11_SuppressedErrorIsNull ==
    \A t \in Threads :
        HelperError(t) =>
            ret[t] = IF arg[t].raise_error = "True"
                     THEN Raise("ApiError", res[t].body)
                     ELSE RetNone

\* C11, amended: on a failure status with a structured error payload
\* post_req and get_req return the decoded error body when raise_error is
\* not set (False or None), and raise the ApiError when it is.
C11_SuppressedErrorIsBody ==
    \A t \in Threads :
        HelperError(t) =>
            ret[t] = IF arg[t].raise_error = "True"
                     THEN Raise("ApiError", res[t].body)
                     ELSE Return("body", res[t].body)

\* C11 witness: post_req called with raise_error=False and answered 500
\* with an error body has returned that body.
C11_Witness ==
    \E t \in Threads :
        /\ HelperError(t) /\ op[t] = "post_req"
        /\ arg[t].raise_error = "False" /\ res[t].status = 500
        /\ ret[t] = Return("body", res[t].body)

\* The calls that go to the network: every operation but set_temp_user,
\* close and a batch of no actions.
NetworkCall(t) ==
    /\ op[t] \notin {"none", "set_temp_user", "close"}
    /\ ~(op[t] = "batch" /\ arg[t].seqs = <<>>)

\* C12: the client never retries.  A call of a network operation that has
\* returned or raised has issued exactly one HTTP request, whatever the
\* outcome (success, error status, timeout, decoding failure); no call has
\* ever issued more than one; set_temp_user has issued none.
C12_OneRequestPerCall ==
    \A t \in Threads :
        /\ nreq[t] <= 1
        /\ pc[t] = "done" => nreq[t] = IF NetworkCall(t) THEN 1 ELSE 0
        /\ op[t] = "set_temp_user" => nreq[t] = 0

\* C12 witness: a login whose request failed in transport has raised after
\* one request.
C12_Witness ==
    \E t \in Threads :
        /\ pc[t] = "done" /\ op[t] = "login" /\ res[t] = NetErr
        /\ ret[t].k = "raise" /\ nreq[t] = 1

\* C13: the lock is held exactly while a request is in transit.  It is
\* free when no request is in flight; its holder is a thread whose request
\* is in flight; a thread that has not yet sent, or whose call has returned
\* or raised (timeout, transport failure, ApiError, ProtocolError), or that
\* is between two calls, does not hold it.
C13_LockOnlyInTransit ==
    /\ (lock = 0) <=> (InFlight = {})
    /\ lock # 0 => lock \in InFlight
    /\ \A t \in Threads : pc[t] # "inflight" => lock # t

\* C13 witness: a call has raised after a transport failure, the lock is
\* free again and another thread is about to take it.
C13_Witness ==
    \E t, u \in Threads :
        /\ pc[t] = "done" /\ res[t] = NetErr /\ ret[t].k = "raise"
        /\ pc[u] = "wait" /\ lock = 0

\* C14: the token and the Authorization header are written only by a step
\* of set_temp_user, or of a login or trial whose response was a success
\* with an id field.  No step of any other operation (register, logout,
\* get_user_info, list_models, get_usage, get_limit, start_bot, stop_bot,
\* act, batch, close, the helpers called directly), whatever its outcome,
\* changes either; and a token or header once set is never cleared, not by
\* logout either.
C14_OnlyCredentialOpsWrite ==
    [][/\ (token' # token \/ headers' # headers) =>
            \E t \in Threads :
                /\ pc'[t] # pc[t]
                /\ op'[t] \in CredentialOps
                /\ op'[t] \in LoginOps =>
                       ok(res[t]) /\ HasField(res[t], "id")
       /\ token # NoToken => token' # NoToken
       /\ "Authorization" \in DOMAIN headers =>
              "Authorization" \in DOMAIN headers']_vars

\* C14 witness: logout has been answered with success and the token and its
\* header are still in place.
C14_Witness ==
    \E t \in Threads :
        /\ pc[t] = "done" /\ op[t] = "logout" /\ ok(res[t])
        /\ token # NoToken /\ HasBearer(headers, token)

\* Thread t sends its request in this step.
Sends(t) == pc[t] = "wait" /\ pc'[t] = "inflight"

\* C15, as claimed: with credential-setting operations running in one
\* thread at a time and requests issued by other threads, every request
\* sent while the token field is set carries Authorization: Bearer <the
\* current token>; none is sent with a missing or older credential.
C15_RequestsCarryCurrentToken ==
    [][\A t \in Threads :
          (/\ Sends(t) /\ token # NoToken
           /\ \A u, v \in Threads :
                  InCredential(u) /\ InCredential(v) => u = v)
              => HasBearer(carried'[t], token)]_vars

TransportFails(t) ==
    pc[t] = "inflight" /\ pc'[t] = "done" /\ res'[t] = NetErr

\* C17: when the transport fails, post_req / get_req called with raise_error
\* set let the TransportError through and called with it unset (False or
\* None) return None; act and batch always let it through.  In every case
\* the step leaves the token and the headers as they were, and the call
\* has issued its one request and ends.
C17_TransportFailure ==
    [][\A t \in Threads :
          TransportFails(t) =>
              /\ op[t] \in {"post_req", "get_req"} =>
                     ret'[t] = IF arg[t].raise_error = "True"
                               THEN Raise("TransportError", EmptyBody)
                               ELSE RetNone
              /\ op[t] \in ActOps =>
                     ret'[t] = Raise("TransportError", EmptyBody)
              /\ token' = token /\ headers' = headers
              /\ nreq'[t] = 1]_vars

\* C17 witness: get_req called with raise_error=False has returned None
\* after a transport failure, having sent one request.
C17_Witness ==
    \E t \in Threads :
        /\ pc[t] = "done" /\ op[t] = "get_req" /\ res[t] = NetErr
        /\ arg[t].raise_error = "False" /\ ret[t] = RetNone /\ nreq[t] = 1

\* A credential-setting operation of t has been invoked and has not yet
\* come to its end.
MidCredential(t) ==
    op[t] \in CredentialOps /\ pc[t] \notin {"idle", "done"}

\* C18, as claimed: after any interleaving, concurrent credential-setting
\* operations included, whenever no credential-setting operation is
\* mid-execution the header is absent exactly when the token is unset, and
\* otherwise equals Bearer <token>.
C18_TokenAndHeaderAgree ==
    (\A t \in Threads : ~MidCredential(t)) =>
        IF token = NoToken THEN "Authorization" \notin DOMAIN headers
        ELSE HasBearer(headers, token)

\* A call of act, or of batch with at least one envelope, by t has ended.
ActCallDone(t) ==
    pc[t] = "done" /\ op[t] \in ActOps /\ arg[t].seqs # <<>>

====
